---- MODULE Spec2Model ----
(***************************************************************************)
(* A model of the egui_timeline demo host (src/src/main.rs, TimelineApp)   *)
(* driven through the widget's per-frame interaction code                  *)
(* (src/src/interaction.rs, src/src/ruler.rs, src/src/context.rs).         *)
(*                                                                         *)
(* Numbers.  The program computes in f32/f64.  The model uses fixed point: *)
(*   - ticks are integers in units of 1/TickScale tick,                    *)
(*   - zoom_level is an integer in units of 1/ZoomScale,                   *)
(*   - pointer x is an integer in units of 1/PxScale point, measured from  *)
(*     the left edge of the timeline rectangle (timeline_rect.min.x),      *)
(*   - scroll deltas and the timeline width are whole points,              *)
(*   - time is in whole seconds.                                           *)
(* With ticks_per_beat = 960, ticks_per_point is 12 * zoom_level units per  *)
(* point and the tick under pointer x is x * zoom_level / ZoomScale units: *)
(* every product the code forms on the model's inputs is exact.            *)
(***************************************************************************)
EXTENDS Integers, Sequences, FiniteSets, TLC

\* ------------------------------------------------------------------ numbers

\* fixed-point resolution of tick values (f32 in the source)
TickScale == 16
\* fixed-point resolution of zoom_level (f32 in the source)
ZoomScale == 80
\* fixed-point resolution of pointer x positions (f32 in the source)
PxScale == 960

\* TimelineApp::default: ticks_per_beat
TicksPerBeat == 960
\* TimelineApp::TOTAL_BARS
TOTAL_BARS == 501
\* the zoom clamp of TimelineApp::zoom: .max(0.1).min(3.0)
ZoomMin == 8
ZoomMax == 240

\* width of the timeline rectangle in points (a layout input, fixed per run)
TimelineW == 1000
\* the largest value of the egui clock (seconds) the model lets time reach
MaxTime == 520

Max(a, b) == IF a >= b THEN a ELSE b
Min(a, b) == IF a <= b THEN a ELSE b
Abs(a) == IF a >= 0 THEN a ELSE 0 - a

\* Option<T>: None is the empty tuple, Some(v) the one-element tuple
None == << >>
Some(v) == << v >>
IsSome(o) == o # None
Unwrap(o) == o[1]

\* ------------------------------------------------------------------ time model

\* TimelineApp::ticks_per_bar (4/4), in tick units
ticks_per_bar == TicksPerBeat * 4 * TickScale

\* TimelineApp::ticks_per_second: 1 bar = 1 second
ticks_per_second == ticks_per_bar

\* TimelineApp::max_playhead_pos
max_playhead_pos == TOTAL_BARS * ticks_per_bar

\* ticks_per_point = (ticks_per_beat / 16) * zoom_level, in tick units per point
ticks_per_point(z) == (TicksPerBeat * TickScale * z) \div (16 * ZoomScale)

\* visible_ticks = ticks_per_point * timeline_w
visible_ticks(z) == ticks_per_point(z) * TimelineW

\* tick = (((pt.x - timeline_rect.min.x) / timeline_w) * visible_ticks).max(0.0)
\* x is the pointer's offset from timeline_rect.min.x in 1/PxScale points
\* (whole points and the fraction of a point are converted one after the other)
PointerTick(z, x) ==
    Max((x \div PxScale) * ticks_per_point(z)
        + ((x % PxScale) * ticks_per_point(z)) \div PxScale, 0)

\* ------------------------------------------------------------------ state

VARIABLES
    timeline_start,           \* TimelineApp.timeline_start (tick units)
    zoom_level,               \* TimelineApp.zoom_level (1/ZoomScale)
    playhead_pos,             \* TimelineApp.playhead_pos (absolute, tick units)
    track_selections,         \* TimelineApp.track_selections: track id -> <<start, end>>
    drag_start_tick,          \* TimelineApp.drag_start_tick: None or <<track id, start>>
    track_ids,                \* TimelineApp.track_ids: the ordered track ids
    track_names,              \* TimelineApp.track_names: track id -> name
    pending_add_track,        \* TimelineApp.pending_add_track
    selected_track_id,        \* TimelineApp.selected_track_id: None or Some(track id)
    is_playing,               \* TimelineApp.is_playing
    play_start_time,          \* TimelineApp.play_start_time: None or Some(seconds)
    play_start_playhead_pos,  \* TimelineApp.play_start_playhead_pos
    time,                     \* egui's clock, ctx.input(|i| i.time), seconds
    primary_down,             \* egui: the primary button is down after the last frame
    ruler_drag,               \* egui: the ruler widget holds the current press
    last,                     \* what the last frame was given and did (observation only)
    seen,                     \* what the track handlers of the last frame were given and
                              \* did (observation only), or Unseen
    steps                     \* ruler::Steps: the step iterator in use, or NoSteps

vars == << timeline_start, zoom_level, playhead_pos, track_selections, drag_start_tick,
           track_ids, track_names, pending_add_track, selected_track_id,
           is_playing, play_start_time, play_start_playhead_pos, time,
           primary_down, ruler_drag, last, seen, steps >>

\* the TimelineApp fields as one record, the `self` the methods below work on
App == [ timeline_start |-> timeline_start,
         zoom_level |-> zoom_level,
         playhead_pos |-> playhead_pos,
         track_selections |-> track_selections,
         drag_start_tick |-> drag_start_tick,
         track_ids |-> track_ids,
         track_names |-> track_names,
         pending_add_track |-> pending_add_track,
         selected_track_id |-> selected_track_id,
         is_playing |-> is_playing,
         play_start_time |-> play_start_time,
         play_start_playhead_pos |-> play_start_playhead_pos ]

\* ------------------------------------------------------------------ TimelineApi

\* fn shift_timeline_start(&mut self, ticks): self.timeline_start += ticks
shift_timeline_start(a, ticks) ==
    [a EXCEPT !.timeline_start = a.timeline_start + ticks]

\* zoom_level * (1.0 + y_delta * 0.01), y_delta in whole points
ZoomProduct(z, y_delta) == (z * (100 + y_delta)) \div 100

\* a plausible slip: the upper clamp .min(3.0) is missing
zoom_NoUpperClamp(a, y_delta) ==
    [a EXCEPT !.zoom_level = Max(ZoomProduct(a.zoom_level, y_delta), ZoomMin)]

\* fn zoom(&mut self, y_delta):
\*   self.zoom_level = (self.zoom_level * (1.0 + y_delta * 0.01)).max(0.1).min(3.0)
zoom(a, y_delta) ==
    [a EXCEPT !.zoom_level = Min(Max(ZoomProduct(a.zoom_level, y_delta), ZoomMin), ZoomMax)]

\* ------------------------------------------------------------------ scroll and zoom

\* the choice between egui's smooth and raw scroll deltas; a delta is <<x, y>>
ScrollDelta(ctrl_pressed, smooth_delta, raw_delta) ==
    IF ctrl_pressed
    THEN (IF raw_delta # << 0, 0 >> THEN raw_delta ELSE smooth_delta)
    ELSE (IF smooth_delta # << 0, 0 >> THEN smooth_delta ELSE raw_delta)

\* max_timeline_start = (total_ticks - visible_ticks).max(0.0), total = 501 bars
max_timeline_start(z) ==
    Max(TOTAL_BARS * ticks_per_bar - visible_ticks(z), 0)

\* a plausible slip: the lower clamp new_start.max(0.0) is missing
ClampedStart_NoLowerClamp(a, delta_x) ==
    LET new_start == a.timeline_start + delta_x * ticks_per_point(a.zoom_level)
    IN  IF new_start > max_timeline_start(a.zoom_level)
        THEN max_timeline_start(a.zoom_level)
        ELSE new_start

\* new_start = (current_start + delta.x * ticks_per_point).max(0.0),
\* then lowered to max_timeline_start when above it
ClampedStart(a, delta_x) ==
    LET new_start == Max(a.timeline_start + delta_x * ticks_per_point(a.zoom_level), 0)
    IN  IF new_start > max_timeline_start(a.zoom_level)
        THEN max_timeline_start(a.zoom_level)
        ELSE new_start

\* the horizontal scroll branch: report the applied delta when it exceeds 0.001 tick
\* (0.001 tick is TickScale / 1000 units; the difference is a whole number of units)
HorizontalScroll(a, delta_x) ==
    LET current_start == a.timeline_start
        new_start == ClampedStart(a, delta_x)
    IN  IF Abs(new_start - current_start) > TickScale \div 1000
        THEN shift_timeline_start(a, new_start - current_start)
        ELSE a

\* pub fn handle_scroll_and_zoom; over_timeline is ui.rect_contains_pointer(timeline_rect)
handle_scroll_and_zoom(a, over_timeline, ctrl_pressed, shift_pressed, smooth_delta, raw_delta) ==
    LET delta == ScrollDelta(ctrl_pressed, smooth_delta, raw_delta)
    IN  IF ~over_timeline THEN a
        ELSE IF ctrl_pressed
             THEN (IF delta[1] # 0 \/ delta[2] # 0 THEN zoom(a, delta[2] - delta[1]) ELSE a)
        ELSE IF shift_pressed \/ delta[1] # 0
             THEN (IF delta[1] # 0 THEN HorizontalScroll(a, delta[1]) ELSE a)
        ELSE a

\* ------------------------------------------------------------------ playhead

\* a plausible slip: the play start is not reset when the playhead is set while playing
set_playhead_ticks_NoReset(a, ticks) ==
    [a EXCEPT !.playhead_pos = a.timeline_start + ticks]

\* impl Interaction: fn set_playhead_ticks(&self, ticks), ticks relative to the viewport
set_playhead_ticks(a, ticks) ==
    LET new_pos == a.timeline_start + ticks
    IN  IF a.is_playing
        THEN [a EXCEPT !.playhead_pos = new_pos,
                       !.play_start_playhead_pos = new_pos,
                       !.play_start_time = None]
        ELSE [a EXCEPT !.playhead_pos = new_pos]

\* impl MusicalInteract: fn click_at_tick(&mut self, tick)
click_at_tick(a, tick) ==
    [a EXCEPT !.playhead_pos = a.timeline_start + tick]

\* a plausible slip: > instead of >= in the end-of-timeline test
ReachedEnd_Strict(clamped_pos, max_pos) == clamped_pos > max_pos

\* if clamped_pos >= max_pos { stop playback }
ReachedEnd(clamped_pos, max_pos) == clamped_pos >= max_pos

\* a plausible slip: the elapsed time is measured from time 0, not from the play start
ComputedPos_FromZero(a, current_time) ==
    IF a.play_start_time = None
    THEN a.playhead_pos
    ELSE a.play_start_playhead_pos + current_time * ticks_per_second

\* the position update_playhead_position computes at current_time (before the clamp)
ComputedPos(a, current_time) ==
    IF a.play_start_time = None
    THEN a.playhead_pos
    ELSE a.play_start_playhead_pos
           + (current_time - Unwrap(a.play_start_time)) * ticks_per_second

\* fn update_playhead_position(&self, ctx), current_time = ctx.input(|i| i.time)
update_playhead_position(a, current_time) ==
    IF a.is_playing
    THEN LET start_time == IF a.play_start_time = None
                           THEN current_time ELSE Unwrap(a.play_start_time)
             start_pos == IF a.play_start_time = None
                          THEN a.playhead_pos ELSE a.play_start_playhead_pos
             max_pos == max_playhead_pos
             clamped_pos == Min(ComputedPos(a, current_time), max_pos)
         IN  IF ReachedEnd(clamped_pos, max_pos)
             THEN [a EXCEPT !.playhead_pos = clamped_pos,
                            !.play_start_playhead_pos = start_pos,
                            !.is_playing = FALSE,
                            !.play_start_time = None]
             ELSE [a EXCEPT !.playhead_pos = clamped_pos,
                            !.play_start_playhead_pos = start_pos,
                            !.play_start_time = Some(start_time)]
    ELSE [a EXCEPT !.play_start_time = None]

\* ------------------------------------------------------------------ TrackSelectionApi

\* the empty HashMap
EmptyMap == [k \in {} |-> << 0, 0 >>]

\* HashMap::insert
MapInsert(m, key, value) ==
    [k \in DOMAIN m \cup {key} |-> IF k = key THEN value ELSE m[k]]

\* fn start_selection_drag(&self, track_id, start_tick)
start_selection_drag(a, track_id, start_tick) ==
    [a EXCEPT !.drag_start_tick = << track_id, start_tick >>]

\* a plausible slip: the pair is stored as given, without min/max
update_selection_drag_Unordered(a, track_id, end_tick) ==
    IF a.drag_start_tick # None /\ a.drag_start_tick[1] = track_id
    THEN [a EXCEPT !.track_selections =
              MapInsert(a.track_selections, track_id, << a.drag_start_tick[2], end_tick >>)]
    ELSE a

\* fn update_selection_drag(&self, track_id, end_tick)
update_selection_drag(a, track_id, end_tick) ==
    IF a.drag_start_tick # None /\ a.drag_start_tick[1] = track_id
    THEN LET start_tick == a.drag_start_tick[2]
         IN  [a EXCEPT !.track_selections =
                  MapInsert(a.track_selections, track_id,
                            << Min(start_tick, end_tick), Max(start_tick, end_tick) >>)]
    ELSE a

\* fn get_drag_start(&self) -> Option<(String, f32)>
get_drag_start(a) == a.drag_start_tick

\* fn end_selection_drag(&self)
end_selection_drag(a) == [a EXCEPT !.drag_start_tick = None]

\* fn set_selection(&self, track_id, start_tick, end_tick)
set_selection(a, track_id, start_tick, end_tick) ==
    [a EXCEPT !.track_selections =
         MapInsert(a.track_selections, track_id, << start_tick, end_tick >>)]

\* fn clear_all_selections(&self)
clear_all_selections(a) == [a EXCEPT !.track_selections = EmptyMap]

\* fn get_selection(&self, track_id) -> Option<(f32, f32)>
get_selection(a, track_id) ==
    IF track_id \in DOMAIN a.track_selections
    THEN Some(a.track_selections[track_id])
    ELSE None

\* fn get_selected_track_id(&self) -> Option<String>: track_selections.keys().next();
\* a HashMap yields its keys in no particular order, so this is the set of the values
\* the call may return
get_selected_track_id(a) ==
    IF DOMAIN a.track_selections = {} THEN { None }
    ELSE { Some(k) : k \in DOMAIN a.track_selections }

\* ------------------------------------------------------------------ geometry

\* Pointer positions are <<x, y>>: x in 1/PxScale points from timeline_rect.min.x;
\* y a row of the layout, top to bottom:
\*   -1           outside the timeline rectangle (top panel, bottom bar)
\*    0           the pinned ruler track
\*    1           the separator below the pinned tracks
\*    2*i         the top edge of track i (the bottom edge of track i-1: Rect::contains
\*                is inclusive on both edges and the tracks are stacked without a gap)
\*    2*i + 1     the inside of track i
\*    2*n + 2     the bottom edge of the last track n
\*    2*n + 3     below the last track, still inside the timeline rectangle
RulerY == 0

\* the x extent shared by the timeline rectangle and every track rectangle
InTimelineX(x) == 0 <= x /\ x <= TimelineW * PxScale

\* timeline.full_rect.contains(pos)
OverFullTimeline(pos) == pos # None /\ InTimelineX(pos[1]) /\ pos[2] >= 0

\* actual_track_rect.contains(pos) for the i-th track
OverTrack(pos, i) ==
    pos # None /\ InTimelineX(pos[1]) /\ 2 * i <= pos[2] /\ pos[2] <= 2 * i + 2

\* track_timeline_rect.contains(pos): TrackCtx::show passes the timeline rectangle
\* with its top moved down to the top of the i-th track (rect.min.y = available_rect.min.y)
OverTrackTimeline(pos, i) ==
    pos # None /\ InTimelineX(pos[1]) /\ 2 * i <= pos[2]

\* the ruler's rect.contains(pos)
OverRuler(pos) == pos # None /\ InTimelineX(pos[1]) /\ pos[2] = RulerY

\* ------------------------------------------------------------------ track interaction

\* tick.max(0.0).min(visible_ticks)
ClampTick(a, tick) == Min(Max(tick, 0), visible_ticks(a.zoom_level))

\* a plausible slip: the drag starts without clearing the other selections
StartDrag_NoClear(a, track_id, tick) ==
    start_selection_drag(a, track_id, a.timeline_start + tick)

\* a plausible slip: the drag's start stays relative to the viewport
StartDrag_Relative(a, track_id, tick) ==
    start_selection_drag(clear_all_selections(a), track_id, tick)

\* branch "Start drag": clear all selections, store the absolute start
StartDrag(a, track_id, tick) ==
    start_selection_drag(clear_all_selections(a), track_id, a.timeline_start + tick)

\* a plausible slip: the pointer tick is used as it is, without the clamp
ContinueDrag_Unclamped(a, track_id, tick) ==
    update_selection_drag(a, track_id, a.timeline_start + tick)

\* branch "Continue drag": update the live selection with the clamped pointer tick
ContinueDrag(a, track_id, tick) ==
    update_selection_drag(a, track_id, a.timeline_start + ClampTick(a, tick))

\* a plausible slip: the final end tick stays relative to the viewport
ReleaseEndTick_Relative(a, tick, pointer_over_timeline) ==
    ClampTick(a, IF pointer_over_timeline
                 THEN tick
                 ELSE ClampTick(a, get_drag_start(a)[2] - a.timeline_start))

\* the final end tick of the release branch
ReleaseEndTick(a, tick, pointer_over_timeline) ==
    LET absolute_start_tick == get_drag_start(a)[2]
        clamped_tick == IF pointer_over_timeline
                        THEN tick
                        ELSE ClampTick(a, absolute_start_tick - a.timeline_start)
    IN  a.timeline_start + ClampTick(a, clamped_tick)

\* if drag_distance < 1.0 (one tick is TickScale units)
IsClick(drag_distance) == drag_distance < TickScale

\* branch "End drag": click or drag, then end_selection_drag
EndDrag(a, track_id, tick, pointer_over_timeline) ==
    IF get_drag_start(a) = None THEN a
    ELSE LET absolute_start_tick == get_drag_start(a)[2]
             absolute_end_tick == ReleaseEndTick(a, tick, pointer_over_timeline)
             drag_distance == Abs(absolute_end_tick - absolute_start_tick)
         IN  IF IsClick(drag_distance)
             THEN end_selection_drag(clear_all_selections(a))
             ELSE end_selection_drag(
                      set_selection(clear_all_selections(a), track_id,
                                    Min(absolute_start_tick, absolute_end_tick),
                                    Max(absolute_start_tick, absolute_end_tick)))

\* pub fn handle_track_interaction for the i-th track of a.track_ids, with both the
\* playhead and the selection API present (as main.rs passes them);
\* inp holds egui's pointer input of the frame
handle_track_interaction(a, inp, i) ==
    IF inp.pointer_pos = None THEN a
    ELSE
    LET track_id == a.track_ids[i]
        pt == inp.pointer_pos
        pointer_over_track == OverTrack(pt, i)
        pointer_over_timeline == OverTrackTimeline(pt, i)
        is_dragging_this_track ==
            get_drag_start(a) # None /\ get_drag_start(a)[1] = track_id
        tick == PointerTick(a.zoom_level, pt[1])
        a1 == IF ((inp.pointer_pressed /\ pointer_over_track)
                    \/ (inp.pointer_down /\ pointer_over_track))
                 /\ ~inp.secondary_pressed
              THEN set_playhead_ticks(a, tick)
              ELSE a
    IN  IF inp.secondary_pressed /\ pointer_over_timeline
            THEN clear_all_selections(a1)
        ELSE IF inp.pointer_pressed /\ pointer_over_track /\ ~inp.secondary_pressed
            THEN StartDrag(a1, track_id, tick)
        ELSE IF inp.pointer_down /\ is_dragging_this_track /\ ~inp.secondary_pressed
            THEN ContinueDrag(a1, track_id, tick)
        ELSE IF inp.pointer_released
            THEN (IF is_dragging_this_track
                  THEN EndDrag(a1, track_id, tick, pointer_over_timeline)
                  ELSE a1)
        ELSE a1

\* ------------------------------------------------------------------ track list

\* the map m without key
MapRemove(m, key) == [k \in DOMAIN m \ { key } |-> m[k]]

\* format!("Track {}", track_num) and format!("track{}", track_num)
TrackName(track_num) == "Track " \o ToString(track_num)
TrackId(track_num) == "track" \o ToString(track_num)

\* fn request_add_track(&self)
request_add_track(a) == [a EXCEPT !.pending_add_track = TRUE]

\* while track_names.values().any(|name| name == &new_track_name) { track_num += 1; .. }
RECURSIVE FreeTrackNum(_, _)
FreeTrackNum(names, track_num) ==
    IF \E id \in DOMAIN names : names[id] = TrackName(track_num)
    THEN FreeTrackNum(names, track_num + 1)
    ELSE track_num

\* fn process_pending_add_track(&self)
process_pending_add_track(a) ==
    IF a.pending_add_track
    THEN LET track_num == FreeTrackNum(a.track_names, Len(a.track_ids) + 1)
         IN  [a EXCEPT !.pending_add_track = FALSE,
                       !.track_ids = Append(@, TrackId(track_num)),
                       !.track_names = MapInsert(@, TrackId(track_num),
                                                 TrackName(track_num))]
    ELSE a

\* fn remove_selected_track(&self)
remove_selected_track(a) ==
    IF a.selected_track_id = None THEN a
    ELSE LET track_id == Unwrap(a.selected_track_id)
         IN  [a EXCEPT !.track_ids = SelectSeq(@, LAMBDA id : id # track_id),
                       !.track_names = MapRemove(@, track_id),
                       !.track_selections = MapRemove(@, track_id),
                       !.selected_track_id = None]

\* the header closure of the i-th track: if text_response.changed()
\* { track_names.insert(track_id, name) }; rename is None or Some(<<i, name>>)
rename_track(a, rename, i) ==
    IF rename # None /\ Unwrap(rename)[1] = i
    THEN [a EXCEPT !.track_names = MapInsert(@, a.track_ids[i], Unwrap(rename)[2])]
    ELSE a

\* the track click handler main.rs passes to TrackCtx::show:
\* move |track_id| { *selected_track_id_ref.borrow_mut() = Some(track_id) }
on_track_click(a, track_id) == [a EXCEPT !.selected_track_id = Some(track_id)]

\* TrackCtx::show calling the track click handler: the frame's input names the track
\* the widget reports as clicked, None or Some(i)
track_clicked(a, track_click, i) ==
    IF track_click = Some(i) THEN on_track_click(a, a.track_ids[i]) ELSE a

\* one pass of the loop over the tracks in TimelineApp::update: the header closure,
\* then TrackCtx::show with the interaction and the click handler
TrackStep(a, inp, i) ==
    track_clicked(handle_track_interaction(rename_track(a, inp.rename, i), inp, i),
                  inp.track_click, i)

\* the loop over the tracks in TimelineApp::update: for track_id in track_ids_vec.iter()
RECURSIVE TracksFrom(_, _, _)
TracksFrom(a, inp, i) ==
    IF i > Len(a.track_ids) THEN a
    ELSE TracksFrom(TrackStep(a, inp, i), inp, i + 1)

\* the top panel's track callbacks: || self.request_add_track() and
\* || self.remove_selected_track(); add and remove say which of them the panel calls
top_panel_tracks(a, add, remove) ==
    LET a1 == IF add THEN request_add_track(a) ELSE a
    IN  IF remove THEN remove_selected_track(a1) ELSE a1

\* ------------------------------------------------------------------ ruler

\* pub fn musical, its interaction part; dragged is response.dragged()
musical(a, inp, dragged) ==
    IF ((inp.pointer_pressed /\ OverRuler(inp.pointer_pos)) \/ dragged)
       /\ inp.pointer_pos # None
    THEN click_at_tick(a, PointerTick(a.zoom_level, inp.pointer_pos[1]))
    ELSE a

\* ------------------------------------------------------------------ one frame

\* egui's button flags of a frame in which the primary button changed state n times,
\* starting from was_down: primary_pressed / primary_released say whether a press /
\* a release happened during the frame, primary_down is the state at its end
Buttons(was_down, n) ==
    [ pointer_pressed  |-> IF was_down THEN n >= 2 ELSE n >= 1,
      pointer_released |-> IF was_down THEN n >= 1 ELSE n >= 2,
      pointer_down     |-> IF n % 2 = 0 THEN was_down ELSE ~was_down ]

\* the play / stop control of the top panel: |val| *self.is_playing.borrow_mut() = val
set_is_playing(a, play) ==
    IF play = None THEN a ELSE [a EXCEPT !.is_playing = Unwrap(play)]

\* the absolute tick under the pointer, clamped into the viewport
PointerAbsTick(a, pos) ==
    a.timeline_start + ClampTick(a, PointerTick(a.zoom_level, pos[1]))

\* the horizontal scroll of the frame, if its gesture reaches the scroll branch:
\* "low" / "high" when the requested start was clamped at 0 / at max_timeline_start,
\* "free" when it was applied as requested, "none" without a horizontal scroll
ScrollKind(a, inp) ==
    LET delta == ScrollDelta(inp.ctrl, inp.smooth_delta, inp.raw_delta)
        want == a.timeline_start + delta[1] * ticks_per_point(a.zoom_level)
    IN  IF ~OverFullTimeline(inp.pointer_pos) \/ inp.ctrl \/ delta[1] = 0 THEN "none"
        ELSE IF want < 0 THEN "low"
        ELSE IF want > max_timeline_start(a.zoom_level) THEN "high"
        ELSE "free"

\* the zoom gesture of the frame: Some(y_delta) when handle_scroll_and_zoom calls
\* zoom(y_delta), else None
ZoomGesture(inp) ==
    LET delta == ScrollDelta(inp.ctrl, inp.smooth_delta, inp.raw_delta)
    IN  IF OverFullTimeline(inp.pointer_pos) /\ inp.ctrl /\ delta # << 0, 0 >>
        THEN Some(delta[2] - delta[1])
        ELSE None

\* the frame calls set_playhead_ticks from a track: the primary button is pressed or
\* held over a track and there is no secondary press (interaction.rs:146-150)
SetsPlayhead(a, inp) ==
    /\ inp.pointer_pos # None
    /\ ~inp.secondary_pressed
    /\ inp.pointer_pressed \/ inp.pointer_down
    /\ \E i \in 1 .. Len(a.track_ids) : OverTrack(inp.pointer_pos, i)

\* The playback epoch as an observer of the frames derives it (it reads neither
\* play_start_time nor play_start_playhead_pos).  prev is the epoch after the frame
\* before: None when not playing, Void when a pointer input other than
\* set_playhead_ticks came in between, <<"set", P>> after set_playhead_ticks placed
\* the playhead at P while playing, <<kind, T0, t0>> once the first update frame of
\* the epoch has run at time t0 with the playhead at T0.
\* EpochAtUpdate is the epoch that applies to this frame's update_playhead_position,
\* EpochAfter the one handed to the next frame.
Void == << "void" >>

EpochAtUpdate(prev, a, current_time) ==
    IF ~a.is_playing THEN None
    ELSE IF prev = None THEN << "start", a.playhead_pos, current_time >>
    ELSE IF Len(prev) = 2 THEN << "set", prev[2], current_time >>
    ELSE prev

EpochAfter(prev, a, a0, a1, inp, current_time) ==
    IF ~a0.is_playing \/ inp.play = Some(FALSE) THEN None
    ELSE IF SetsPlayhead(a1, inp)
        THEN << "set", a1.timeline_start + PointerTick(a1.zoom_level, inp.pointer_pos[1]) >>
    ELSE IF inp.pointer_pressed \/ inp.pointer_down \/ inp.pointer_released THEN Void
    ELSE EpochAtUpdate(prev, a, current_time)

\* what update_playhead_position made of the epoch: Some(<<kind, T0, t0, playhead_pos>>)
\* when it ran while playing under a known epoch, else None
EpochUpdate(prev, a, a0, current_time) ==
    IF a.is_playing /\ EpochAtUpdate(prev, a, current_time) # Void
    THEN Some(EpochAtUpdate(prev, a, current_time) \o << a0.playhead_pos >>)
    ELSE None

\* the relative ticks of the press and of the release in the selection scenario
PressTick == 100 * TickScale
ReleaseTick == 500 * TickScale

\* the pointer is inside the i-th track and on no other track
OnTrackOnly(a, pos, i) ==
    /\ OverTrack(pos, i)
    /\ \A j \in 1 .. Len(a.track_ids) : j # i => ~OverTrack(pos, j)

\* The selection scenario on the first track as an observer of the frames follows it.
\* prev is the scenario after the frame before: None when none is under way,
\* Some(<<timeline_start, zoom_level>>) after a lone primary press at PressTick inside
\* the track and any number of frames with the button held and the viewport as it
\* was, Some(<<timeline_start, zoom_level, "released">>) when such a drag ended with
\* a lone release at ReleaseTick inside the track.
ScenarioStep(prev, a1, inp) ==
    LET pos == inp.pointer_pos
        view == << a1.timeline_start, a1.zoom_level >>
        under_way == prev # None /\ prev[1] = view
    IN  IF pos = None \/ inp.secondary_pressed THEN None
        ELSE IF inp.pointer_pressed /\ ~inp.pointer_released /\ inp.pointer_down
            THEN (IF OnTrackOnly(a1, pos, 1)
                      /\ PointerTick(a1.zoom_level, pos[1]) = PressTick
                  THEN Some(view) ELSE None)
        ELSE IF under_way /\ inp.pointer_down /\ ~inp.pointer_released THEN prev
        ELSE IF under_way /\ inp.pointer_released /\ ~inp.pointer_pressed
                /\ ~inp.pointer_down
                /\ OnTrackOnly(a1, pos, 1)
                /\ PointerTick(a1.zoom_level, pos[1]) = ReleaseTick
            THEN Some(view \o << "released" >>)
        ELSE None

\* the selection the track handlers are to commit when the frame is a lone release of
\* the primary button with the pointer outside the timeline rectangle of the track
\* that holds the drag: Some(the live selection of that track, if it spans a tick or
\* more); None in every other frame
ReleaseOutside(a1, inp) ==
    IF /\ inp.pointer_pos # None
       /\ inp.pointer_released /\ ~inp.pointer_pressed /\ ~inp.pointer_down
       /\ ~inp.secondary_pressed
       /\ get_drag_start(a1) # None
       /\ \E i \in 1 .. Len(a1.track_ids) :
            /\ a1.track_ids[i] = get_drag_start(a1)[1]
            /\ ~OverTrackTimeline(inp.pointer_pos, i)
    THEN LET track_id == get_drag_start(a1)[1]
             live == get_selection(a1, track_id)
         IN  Some(IF live # None /\ live[1][2] - live[1][1] >= TickScale
                  THEN << track_id, live[1] >>
                  ELSE << >>)
    ELSE None

\* What the last frame was given and found, kept for the properties below (it is
\* read by no step).  a is the application at the start of the frame, a0 after
\* update_playhead_position, a1 after the scroll/zoom step (what the track handlers see).
\*   release   Some(<<track, d>>) when the primary button was released with a pointer
\*             position while a drag on `track` was in progress; d is "lt1" when the
\*             pointer's absolute tick (clamped into the viewport) is less than one tick
\*             from the drag's start, else "ge1"
\*   scroll    ScrollKind of the frame
\*   zoom      ZoomGesture of the frame
\*   idle      the frame had no pointer button, scroll or play input
\*   auto_stop Some(<<playhead_pos, is_playing>>) as update_playhead_position left them,
\*             when playback was on and the computed position was at or past the maximum
\*   epoch     EpochAfter of the frame
\*   update    EpochUpdate of the frame
\*   scenario  ScenarioStep of the frame
\*   outside   ReleaseOutside of the frame
\* prev is the observation of the frame before.
Observe(prev, a, a0, a1, inp, current_time) ==
    [ release   |-> IF inp.pointer_released /\ inp.pointer_pos # None
                       /\ a.drag_start_tick # None
                    THEN Some(<< a.drag_start_tick[1],
                                 IF Abs(PointerAbsTick(a1, inp.pointer_pos)
                                        - a.drag_start_tick[2]) < TickScale
                                 THEN "lt1" ELSE "ge1" >>)
                    ELSE None,
      scroll    |-> ScrollKind(a0, inp),
      zoom      |-> ZoomGesture(inp),
      idle      |-> ~inp.pointer_pressed /\ ~inp.pointer_released
                    /\ ~inp.pointer_down /\ ~inp.secondary_pressed
                    /\ inp.smooth_delta = << 0, 0 >> /\ inp.raw_delta = << 0, 0 >>
                    /\ inp.play = None,
      auto_stop |-> IF a.is_playing /\ ComputedPos(a, current_time) >= max_playhead_pos
                    THEN Some(<< a0.playhead_pos, a0.is_playing >>)
                    ELSE None,
      epoch     |-> EpochAfter(prev.epoch, a, a0, a1, inp, current_time),
      update    |-> EpochUpdate(prev.epoch, a, a0, current_time),
      scenario  |-> ScenarioStep(prev.scenario, a1, inp),
      outside   |-> ReleaseOutside(a1, inp) ]

\* ------------------------------------------------------------------ the track loop, observed

\* the application before each pass of the loop over the tracks, and after the last
RECURSIVE TrackStates(_, _, _)
TrackStates(a, inp, i) ==
    IF i > Len(a.track_ids) THEN << a >>
    ELSE << a >> \o TrackStates(TrackStep(a, inp, i), inp, i + 1)

\* TrackCtx::show, let selection_data = ..: the selection the track will draw, read
\* before handle_track_interaction is called; the set of the values the read may give
\* (see get_selected_track_id)
selection_data(a, track_id) ==
    { IF sel = Some(track_id) THEN get_selection(a, track_id) ELSE None
        : sel \in get_selected_track_id(a) }

\* the branch handle_track_interaction takes for the i-th track: "clear"
\* (clear_all_selections), "start" (clear_all_selections, start_selection_drag),
\* "continue" (update_selection_drag), "end" (clear_all_selections, possibly
\* set_selection, end_selection_drag) or "none"
TrackBranch(a, inp, i) ==
    IF inp.pointer_pos = None THEN "none"
    ELSE
    LET pt == inp.pointer_pos
        is_dragging_this_track ==
            get_drag_start(a) # None /\ get_drag_start(a)[1] = a.track_ids[i]
    IN  IF inp.secondary_pressed /\ OverTrackTimeline(pt, i) THEN "clear"
        ELSE IF inp.pointer_pressed /\ OverTrack(pt, i) /\ ~inp.secondary_pressed
            THEN "start"
        ELSE IF inp.pointer_down /\ is_dragging_this_track /\ ~inp.secondary_pressed
            THEN "continue"
        ELSE IF inp.pointer_released /\ is_dragging_this_track THEN "end"
        ELSE "none"

\* the tracks whose rectangle holds the pointer
TracksUnder(a, pos) ==
    { a.track_ids[i] : i \in { j \in 1 .. Len(a.track_ids) : OverTrack(pos, j) } }

\* What the loop over the tracks was given and did in the last frame, kept for the
\* properties below (it is read by no step).  a2 is the application when the loop
\* starts.
\*   sec    "none" without a secondary press, "over" when the secondary button was
\*          pressed with the pointer inside the timeline rectangle, else "out"
\*   press  Some(<<the tracks under the pointer, the pointer's absolute tick>>) when
\*          the primary button was pressed inside a track without a secondary press
\*   hold   Some(<<t, <<lo, hi>>, pressed>>) when the primary button is down, there
\*          is a pointer position and the drag belongs to the listed track t: lo and hi
\*          are the drag's start and the pointer's absolute tick (clamped into the
\*          viewport) in order, pressed says that the frame has a primary press
\*   drawn  for each track, selection_data as TrackCtx::show read it
\*   loop   for each track, <<the owner of the drag when its handler ran (or None),
\*          TrackBranch>>
See(a2, inp) ==
    LET pos == inp.pointer_pos
        states == TrackStates(a2, inp, 1)
        n == Len(a2.track_ids)
    IN  [ sec   |-> IF ~inp.secondary_pressed THEN "none"
                    ELSE IF OverFullTimeline(pos) THEN "over" ELSE "out",
          press |-> IF pos # None /\ inp.pointer_pressed /\ ~inp.secondary_pressed
                       /\ TracksUnder(a2, pos) # {}
                    THEN Some(<< TracksUnder(a2, pos),
                                 a2.timeline_start + PointerTick(a2.zoom_level, pos[1]) >>)
                    ELSE None,
          hold  |-> IF pos # None /\ inp.pointer_down /\ get_drag_start(a2) # None
                       /\ \E i \in 1 .. n : a2.track_ids[i] = get_drag_start(a2)[1]
                    THEN LET start == get_drag_start(a2)[2]
                             end == PointerAbsTick(a2, pos)
                         IN  Some(<< get_drag_start(a2)[1],
                                     << Min(start, end), Max(start, end) >>,
                                     inp.pointer_pressed >>)
                    ELSE None,
          drawn |-> [ i \in 1 .. n |->
                        selection_data(rename_track(states[i], inp.rename, i),
                                       a2.track_ids[i]) ],
          loop  |-> [ i \in 1 .. n |->
                        << IF get_drag_start(states[i]) = None THEN None
                           ELSE Some(get_drag_start(states[i])[1]),
                           TrackBranch(states[i], inp, i) >> ] ]

\* no frame has been observed
Unseen == [ sec |-> "none", press |-> None, hold |-> None, drawn |-> << >>,
            loop |-> << >> ]

\* the application after the frame's steps, in the order of TimelineApp::update:
\* process_pending_add_track, update_playhead_position, Timeline::show (scroll and
\* zoom), the pinned ruler track, the tracks, the top panel; paired with the frame's
\* observations (the track loop's only when watch is set)
FrameResult(a, inp, current_time, dragged, watch) ==
    LET ap == process_pending_add_track(a)
        a0 == update_playhead_position(ap, current_time)
        a1 == handle_scroll_and_zoom(a0, OverFullTimeline(inp.pointer_pos),
                                     inp.ctrl, inp.shift, inp.smooth_delta, inp.raw_delta)
        a2 == musical(a1, inp, dragged)
        a3 == TracksFrom(a2, inp, 1)
        a4 == top_panel_tracks(set_is_playing(a3, inp.play), inp.add, inp.remove)
    IN  << a4, Observe(last, ap, a0, a1, inp, current_time),
           IF watch THEN See(a2, inp) ELSE Unseen >>

\* impl eframe::App for TimelineApp: fn update, one frame with the input inp;
\* watch says whether the track loop is observed
FrameStep(inp, watch) ==
    /\ time + inp.dt <= MaxTime
    /\ \E r \in { FrameResult(App, inp, time + inp.dt,
                              ruler_drag /\ inp.pointer_down /\ ~inp.pointer_released,
                              watch) } :
        /\ time' = time + inp.dt
        /\ timeline_start' = r[1].timeline_start
        /\ zoom_level' = r[1].zoom_level
        /\ playhead_pos' = r[1].playhead_pos
        /\ track_selections' = r[1].track_selections
        /\ drag_start_tick' = r[1].drag_start_tick
        /\ track_ids' = r[1].track_ids
        /\ track_names' = r[1].track_names
        /\ pending_add_track' = r[1].pending_add_track
        /\ selected_track_id' = r[1].selected_track_id
        /\ is_playing' = r[1].is_playing
        /\ play_start_time' = r[1].play_start_time
        /\ play_start_playhead_pos' = r[1].play_start_playhead_pos
        /\ primary_down' = inp.pointer_down
        /\ ruler_drag' = (inp.pointer_down
                          /\ ((inp.pointer_pressed /\ OverRuler(inp.pointer_pos))
                              \/ (ruler_drag /\ ~inp.pointer_released)))
        /\ last' = r[2]
        /\ seen' = r[3]
        /\ UNCHANGED steps

\* a frame whose track loop is not observed
Frame(inp) == FrameStep(inp, FALSE)

\* ------------------------------------------------------------------ steps

\* no Steps value exists
NoSteps == [ status |-> "absent" ]

\* the largest u16, the type of TimeSig.bottom and of beat_subdivs
U16Max == 65535

\* TimeSig::beats_per_bar times ticks_per_beat: the length of a bar of time signature
\* time_sig = <<top, bottom>>, in tick units
bar_ticks(time_sig) == (4 * TicksPerBeat * TickScale * time_sig[1]) \div time_sig[2]

\* impl MusicalInfo: fn bar_at_ticks(&self, tick), tick relative to the viewport.
\* TimelineApp has time_sig 4/4 fixed; time_sig stands for the time signature another
\* implementor of MusicalInfo reports.
bar_at_ticks(a, tick, time_sig) ==
    LET absolute_tick == a.timeline_start + tick
        bar_number == Min(absolute_tick \div bar_ticks(time_sig), TOTAL_BARS - 1)
        bar_start == bar_number * bar_ticks(time_sig)
    IN  [ start    |-> bar_start - a.timeline_start,
          end      |-> bar_start + bar_ticks(time_sig) - a.timeline_start,
          time_sig |-> time_sig ]

\* Steps::new(api, visible_len, min_step_gap); status, fallback, cur, prev and calls
\* are not fields of Steps: status tells how the last call of next ended ("new" before
\* the first call), fallback that step_ticks is the whole bar, cur and prev are the
\* last two steps returned, each with the start of the bar it belongs to, calls is
\* the number of calls of next so far, modulo 2
StepsNewValue(a, time_sig, visible_len, min_step_gap) ==
    [ status          |-> "new",
      ticks_per_point |-> ticks_per_point(a.zoom_level),
      visible_ticks   |-> ticks_per_point(a.zoom_level) * visible_len,
      min_step_ticks  |-> ticks_per_point(a.zoom_level) * min_step_gap,
      index_in_bar    |-> 0,
      step_ticks      |-> 0,
      bar             |-> bar_at_ticks(a, 0, time_sig),
      ticks           |-> 0,
      fallback        |-> FALSE,
      cur             |-> None,
      prev            |-> None,
      calls           |-> 0 ]

\* the subdivision-doubling loop: the last beat_subdivs whose doubling still gives a
\* step above min_step_ticks; 0 when the loop cannot end (beat_subdivs = 0:
\* new_step_ticks is infinite in every round), U16Max + 1 when beat_subdivs * 2 leaves
\* u16 (a panic in a checked build, a wrap to 0 and then the endless loop otherwise).
\* new_step_ticks <= min_step_ticks is compared without rounding.
RECURSIVE Doubling(_, _)
Doubling(beat_subdivs, min_step_ticks) ==
    IF beat_subdivs = 0 THEN 0
    ELSE IF beat_subdivs * 2 > U16Max THEN U16Max + 1
    ELSE IF (TicksPerBeat * TickScale + beat_subdivs * 2 - 1) \div (beat_subdivs * 2)
              <= min_step_ticks
        THEN beat_subdivs
    ELSE Doubling(beat_subdivs * 2, min_step_ticks)

\* how the doubling loop ended
DoublingStatus(d) == IF d = 0 THEN "hang" ELSE IF d > U16Max THEN "overflow" ELSE "ok"

\* a plausible slip: the whole bar is the step only when the bar itself is narrower
\* than min_step_ticks
BarStart_ByBarWidth(s) ==
    LET beat_subdivs == s.bar.time_sig[2] \div 4
        d == Doubling(beat_subdivs, s.min_step_ticks)
    IN  IF beat_subdivs # 0 /\ s.bar.end - s.bar.start < s.min_step_ticks
        THEN [s EXCEPT !.ticks = s.bar.start,
                       !.step_ticks = s.bar.end - s.bar.start,
                       !.fallback = TRUE]
        ELSE IF DoublingStatus(d) # "ok"
        THEN [s EXCEPT !.status = DoublingStatus(d), !.ticks = s.bar.start]
        ELSE [s EXCEPT !.ticks = s.bar.start,
                       !.step_ticks = (TicksPerBeat * TickScale) \div d,
                       !.fallback = FALSE]

\* Steps::next, the first step of a bar: if self.index_in_bar == 0 { ... }
\* (ticks_per_beat / 0 is +infinity, which is >= min_step_ticks)
BarStart(s) ==
    LET beat_subdivs == s.bar.time_sig[2] \div 4
        d == Doubling(beat_subdivs, s.min_step_ticks)
    IN  IF beat_subdivs # 0
           /\ (TicksPerBeat * TickScale) \div beat_subdivs < s.min_step_ticks
        THEN [s EXCEPT !.ticks = s.bar.start,
                       !.step_ticks = s.bar.end - s.bar.start,
                       !.fallback = TRUE]
        ELSE IF DoublingStatus(d) # "ok"
        THEN [s EXCEPT !.status = DoublingStatus(d), !.ticks = s.bar.start]
        ELSE [s EXCEPT !.ticks = s.bar.start,
                       !.step_ticks = (TicksPerBeat * TickScale) \div d,
                       !.fallback = FALSE]

\* self.index_in_bar = 0; self.bar = api.bar_at_ticks(self.bar.tick_range.end + 0.5)
NextBar(a, s) ==
    [s EXCEPT !.index_in_bar = 0,
              !.bar = bar_at_ticks(a, s.bar.end + TickScale \div 2, s.bar.time_sig)]

\* let x = ticks / self.ticks_per_point, in 1/PxScale points
StepX(s, ticks) == (ticks * PxScale) \div s.ticks_per_point

\* if ticks < 0.0 { continue 'ticks; }
SkipStep(ticks) == ticks < 0

\* Steps::next(&mut self, api): the Steps value after the call, with status "some"
\* (a step was returned, now in cur), "none" (None was returned), or "hang" /
\* "overflow" (the call does not return)
RECURSIVE StepsNextValue(_, _)
StepsNextValue(a, s) ==
    LET s1 == IF s.index_in_bar = 0 THEN BarStart(s) ELSE s
    IN  IF s1.status \in { "hang", "overflow" } THEN s1
        ELSE IF s1.ticks > s1.visible_ticks THEN [s1 EXCEPT !.status = "none"]
        ELSE IF s1.ticks >= s1.bar.end
            THEN (IF NextBar(a, s1).bar = s1.bar /\ s1.bar.end <= 0
                  THEN [s1 EXCEPT !.status = "hang"]   \* the same bar, all of it skipped
                  ELSE StepsNextValue(a, NextBar(a, s1)))
        ELSE LET s2 == [s1 EXCEPT !.index_in_bar = s1.index_in_bar + 1,
                                  !.ticks = s1.ticks + s1.step_ticks]
             IN  IF SkipStep(s1.ticks)
                 THEN StepsNextValue(a, s2)
                 ELSE [s2 EXCEPT !.status = "some",
                                 !.prev = s1.cur,
                                 !.cur = Some([ index_in_bar |-> s1.index_in_bar,
                                                ticks        |-> s1.ticks,
                                                x            |-> StepX(s1, s1.ticks),
                                                bar_start    |-> s1.bar.start,
                                                fallback     |-> s1.fallback ])]

\* ------------------------------------------------------------------ inputs

\* the most primary-button transitions egui reports within one frame
MaxButtonEvents == 2

\* the pointer x (1/PxScale points from the timeline's left edge) whose tick at
\* zoom_level 1.0 is t tick units
XOfTick(t) == (t * PxScale) \div ticks_per_point(ZoomScale)

\* pointer x positions: the left edge, just under one tick in, one tick in
PointerXs == { 0, XOfTick(TickScale - 1), XOfTick(TickScale) }

\* the middle and the right edge of the timeline
MidX == (TimelineW \div 2) * PxScale
RightX == TimelineW * PxScale

\* pointer rows for n tracks: outside the timeline, inside and between the tracks,
\* below the last track
PointerYs(n) == { -1 } \cup (3 .. (2 * n + 1)) \cup { 2 * n + 3 }

\* positions left of the timeline (the header column) and right of it
LeftOfTimeline == << 0 - PxScale, 3 >>
RightOfTimeline == << RightX + PxScale, 3 >>

\* interact_pos(): None, or a position
Positions(n) ==
    { None, LeftOfTimeline, RightOfTimeline }
        \cup { << x, y >> : x \in PointerXs, y \in PointerYs(n) }

\* positions on the ruler and right of it, and one inside the first track
RulerPositions ==
    { << 0, RulerY >>, << RightX + PxScale, RulerY >>, << MidX, 3 >> }

\* the pointer positions of the scroll and zoom frames: over a track, over the ruler,
\* outside the timeline (where the gesture is ignored)
GesturePositions == { << MidX, 3 >>, << 0, RulerY >>, << MidX, -1 >> }

\* horizontal scroll distances of one gesture, in points: ScrollD moves the viewport
\* part of the way at the smallest zoom_level, ScrollFar reaches the far end at any zoom
ScrollD == 100000
ScrollFar == 400000

\* <<smooth_delta, raw_delta>> pairs of scroll gestures without the zoom modifier
ScrollInputs ==
    { << << ScrollD, 0 >>, << 0, 0 >> >>,        \* smooth, to the right
      << << 0 - ScrollD, 0 >>, << 0, 0 >> >>,    \* smooth, to the left
      << << 0, 0 >>, << 0 - ScrollFar, 0 >> >>,  \* raw only
      << << ScrollFar, 0 >>, << 7, 0 >> >>,      \* both: smooth wins
      << << 0, 5 >>, << 0, 0 >> >> }             \* vertical only

\* the two far scroll gestures alone
FarScrollInputs ==
    { << << ScrollFar, 0 >>, << 0, 0 >> >>, << << 0 - ScrollFar, 0 >>, << 0, 0 >> >> }

\* <<smooth_delta, raw_delta>> pairs of gestures with the zoom modifier held:
\* factors 2, 0, -1 (raw preferred) and 30 (smooth, when raw is zero)
ZoomInputs ==
    { << << 0, 0 >>, << 0, 100 >> >>,
      << << 0, 7 >>, << 0, -100 >> >>,
      << << 0, 0 >>, << 100, -100 >> >>,
      << << 0, 2900 >>, << 0, 0 >> >> }

\* seconds between two frames while playing: three steps of 167 s play the 501 bars
PlayDts == { 0, 167, 334 }
Dts == IF is_playing THEN PlayDts ELSE { 0 }

Input(btn, sec, pos, ctrl, shift, deltas, dt, play) ==
    [ pointer_pressed   |-> btn.pointer_pressed,
      pointer_released  |-> btn.pointer_released,
      pointer_down      |-> btn.pointer_down,
      secondary_pressed |-> sec,
      pointer_pos       |-> pos,
      ctrl              |-> ctrl,
      shift             |-> shift,
      smooth_delta      |-> deltas[1],
      raw_delta         |-> deltas[2],
      dt                |-> dt,
      play              |-> play,
      rename            |-> None,
      track_click       |-> None,
      add               |-> FALSE,
      remove            |-> FALSE ]

NoDeltas == << << 0, 0 >>, << 0, 0 >> >>

\* ------------------------------------------------------------------ specification

\* TimelineApp::default, before the first frame
Init ==
    /\ timeline_start = 0
    /\ zoom_level = ZoomScale
    /\ playhead_pos = 0
    /\ track_selections = EmptyMap
    /\ drag_start_tick = None
    /\ track_ids = << "track1", "track2" >>
    /\ track_names = [ id \in { "track1", "track2" } |->
                         IF id = "track1" THEN "Track 1" ELSE "Track 2" ]
    /\ pending_add_track = FALSE
    /\ selected_track_id = None
    /\ is_playing = FALSE
    /\ play_start_time = None
    /\ play_start_playhead_pos = 0
    /\ time = 0
    /\ primary_down = FALSE
    /\ ruler_drag = FALSE
    /\ last = [ release |-> None, scroll |-> "none", zoom |-> None, idle |-> TRUE,
                auto_stop |-> None, epoch |-> None, update |-> None,
                scenario |-> None, outside |-> None ]
    /\ seen = Unseen
    /\ steps = NoSteps

\* the input of a frame with n primary-button transitions, possibly a secondary
\* press, the pointer at pos, dt seconds after the last frame
PointerInput(n, sec, pos, dt) ==
    Input(Buttons(primary_down, n), sec, pos, FALSE, FALSE, NoDeltas, dt, None)

\* the input of a frame with a scroll gesture (deltas) and the button state unchanged;
\* ctrl is the zoom modifier
GestureInput(pos, ctrl, shift, deltas, dt) ==
    Input(Buttons(primary_down, 0), FALSE, pos, ctrl, shift, deltas, dt, None)

\* pointer input over the tracks and around them
PointerFrame ==
    \E n \in 0 .. MaxButtonEvents, sec \in BOOLEAN,
       pos \in Positions(Len(track_ids)), dt \in Dts :
        Frame(PointerInput(n, sec, pos, dt))

\* pointer input on the ruler and on the first track
RulerFrame ==
    \E n \in 0 .. MaxButtonEvents, pos \in RulerPositions, dt \in Dts :
        Frame(PointerInput(n, FALSE, pos, dt))

\* horizontal scroll gestures, with and without shift
ScrollFrame ==
    \E pos \in GesturePositions, shift \in BOOLEAN, deltas \in ScrollInputs, dt \in Dts :
        Frame(GestureInput(pos, FALSE, shift, deltas, dt))

\* scroll gestures while the zoom modifier (ctrl) is held
ZoomFrame ==
    \E pos \in GesturePositions, deltas \in ZoomInputs, dt \in Dts :
        Frame(GestureInput(pos, TRUE, FALSE, deltas, dt))

\* the far scroll gestures alone, with the pointer over a track
FarScrollFrame ==
    \E deltas \in FarScrollInputs, dt \in Dts :
        Frame(GestureInput(<< MidX, 3 >>, FALSE, FALSE, deltas, dt))

\* a frame without any input; the clock advances while playing
IdleFrame ==
    /\ ~primary_down
    /\ \E dt \in Dts :
        Frame(Input(Buttons(FALSE, 0), FALSE, << MidX, -1 >>, FALSE, FALSE, NoDeltas,
                    dt, None))

\* a frame in which the top panel calls its set_is_playing callback with val
PlayFrame ==
    \E val \in BOOLEAN, dt \in Dts :
        Frame(Input(Buttons(primary_down, 0), FALSE, << MidX, -1 >>, FALSE, FALSE,
                    NoDeltas, dt, Some(val)))

\* pointer interaction with the tracks, the viewport at either end of the timeline
Next == PointerFrame \/ FarScrollFrame

Spec == Init /\ [][Next]_vars

\* scroll and zoom gestures alone
NextView == ScrollFrame \/ ZoomFrame

SpecView == Init /\ [][NextView]_vars

\* playback, with ruler clicks and drags and the far scroll gestures
NextPlay == PlayFrame \/ IdleFrame \/ RulerFrame \/ FarScrollFrame

SpecPlay == Init /\ [][NextPlay]_vars

\* ------------------------------------------------------------------ steps, specification

\* pub const MIN_STEP_GAP: f32 = 4.0
MIN_STEP_GAP == 4

\* time signatures <<top, bottom>> a MusicalInfo may report; 4/4 is TimelineApp's
TimeSigs == { << 4, 4 >>, << 4, 8 >>, << 3, 2 >>, << 2, 1 >> }

\* min_step_gap values, in points: none, MIN_STEP_GAP, the gap of exactly one beat at
\* zoom_level 1.0 (16 points), a gap of two beats, a gap wider than a bar
StepGaps == { 0, MIN_STEP_GAP, 4 * MIN_STEP_GAP, 8 * MIN_STEP_GAP, 25 * MIN_STEP_GAP }

\* the application's variables and the observation stay as they are
AppUnchanged ==
    UNCHANGED << timeline_start, zoom_level, playhead_pos, track_selections,
                 drag_start_tick, track_ids, track_names, pending_add_track,
                 selected_track_id, is_playing, play_start_time,
                 play_start_playhead_pos, time, primary_down, ruler_drag, last, seen >>

\* the viewport moves between two uses of Steps (a Steps value borrows the api and
\* lives within one frame)
ViewportFrame ==
    /\ steps = NoSteps
    /\ \E deltas \in FarScrollInputs :
        Frame(GestureInput(<< MidX, 3 >>, FALSE, FALSE, deltas, 0))

\* Steps::new over the whole timeline width
StepsNew ==
    /\ steps = NoSteps
    /\ \E time_sig \in TimeSigs, min_step_gap \in StepGaps :
        /\ timeline_start < TOTAL_BARS * bar_ticks(time_sig)  \* tick 0 lies in a bar
        /\ steps' = StepsNewValue(App, time_sig, TimelineW, min_step_gap)
    /\ AppUnchanged

\* one call of Steps::next; calls is the number of calls so far, modulo 2
StepsNext ==
    /\ steps.status \in { "new", "some" }
    /\ steps' = [StepsNextValue(App, steps) EXCEPT !.calls = 1 - steps.calls]
    /\ AppUnchanged

\* the Steps value is dropped after next returned None
StepsDrop ==
    /\ steps.status = "none"
    /\ steps' = NoSteps
    /\ AppUnchanged

NextSteps == ViewportFrame \/ StepsNew \/ StepsNext \/ StepsDrop

\* the caller keeps calling next until it returns None
SpecSteps == Init /\ [][NextSteps]_vars /\ WF_vars(StepsNext)

\* ------------------------------------------------------------------ time marks

\* ticks_per_line = ticks_per_second / MAX_LINES_PER_SECOND, one line per 0.1 second
ticks_per_line == ticks_per_second \div 10

\* first_line_tick_relative: the last 0.1 second position at or before timeline_start,
\* relative to timeline_start
first_line_tick_relative(a) ==
    (a.timeline_start \div ticks_per_line) * ticks_per_line - a.timeline_start

\* x = rect.left() + current_tick_relative / ticks_per_point, as the offset from the
\* rectangle's left edge in 1/PxScale points (whole ticks_per_point and the remainder
\* are converted one after the other)
TickX(z, tick_relative) ==
    (tick_relative \div ticks_per_point(z)) * PxScale
        + ((tick_relative % ticks_per_point(z)) * PxScale) \div ticks_per_point(z)

\* is_whole_second = (seconds % 1.0).abs() < 0.001
is_whole_second(a, tick_relative) ==
    ((a.timeline_start + tick_relative) % ticks_per_second) * 1000 < ticks_per_second

\* (x - last_x).abs() < MIN_STEP_GAP && last_x != f32::NEG_INFINITY; None is -infinity
line_too_close(x, last_x) ==
    last_x # None /\ Abs(x - last_x[1]) < MIN_STEP_GAP * PxScale

\* the relative tick of the loops' i-th pass: current_tick_relative += ticks_per_line
LineTick(a, i) == first_line_tick_relative(a) + i * ticks_per_line

\* the last pass of `while current_tick_relative <= visible_ticks`
LastLine(a) ==
    (visible_ticks(a.zoom_level) - first_line_tick_relative(a)) \div ticks_per_line

\* the painters' state before the first pass: last_x = -infinity, nothing drawn
NoLines == [ last_x |-> None, drawn |-> {} ]

\* one pass of paint_grid's loop: a line too close to the line drawn last is skipped,
\* whole second or not; any other line is drawn and becomes last_x
GridPass(a, st, i) ==
    LET x == TickX(a.zoom_level, LineTick(a, i))
    IN  IF line_too_close(x, st.last_x) THEN st
        ELSE [ last_x |-> Some(x), drawn |-> st.drawn \cup { LineTick(a, i) } ]

\* the passes lo .. hi of paint_grid's loop, in order: the state after the first half
\* of the range is the state before the second half
RECURSIVE GridLines(_, _, _, _)
GridLines(a, st, lo, hi) ==
    IF lo > hi THEN st
    ELSE IF lo = hi THEN GridPass(a, st, lo)
    ELSE LET mid == (lo + hi) \div 2
         IN  CHOOSE out \in { GridLines(a, half, mid + 1, hi) :
                                half \in { GridLines(a, st, lo, mid) } } : TRUE

\* pub fn paint_grid: the relative ticks at which a line is drawn in one frame
paint_grid(a) == GridLines(a, NoLines, 0, LastLine(a)).drawn

\* one pass of ruler::musical's loop: a whole second is always drawn and always
\* becomes last_x, a subdivision only when it is not too close
RulerPass(a, st, i) ==
    LET x == TickX(a.zoom_level, LineTick(a, i))
        whole == is_whole_second(a, LineTick(a, i))
        close == line_too_close(x, st.last_x)
    IN  IF whole \/ ~close
        THEN [ last_x |-> Some(x), drawn |-> st.drawn \cup { LineTick(a, i) } ]
        ELSE st

\* the passes lo .. hi of ruler::musical's loop, in order
RECURSIVE RulerLines(_, _, _, _)
RulerLines(a, st, lo, hi) ==
    IF lo > hi THEN st
    ELSE IF lo = hi THEN RulerPass(a, st, lo)
    ELSE LET mid == (lo + hi) \div 2
         IN  CHOOSE out \in { RulerLines(a, half, mid + 1, hi) :
                                half \in { RulerLines(a, st, lo, mid) } } : TRUE

\* the relative ticks at which ruler::musical draws a line in one frame
RulerMarks(a) == RulerLines(a, NoLines, 0, LastLine(a)).drawn

\* every 0.1 second position the two loops visit
LinePositions(a) == { LineTick(a, i) : i \in 0 .. LastLine(a) }

\* the drawn mark before tick_relative, or None
PreviousMark(drawn, tick_relative) ==
    LET before == { d \in drawn : d < tick_relative }
    IN  IF before = {} THEN None
        ELSE Some(CHOOSE d \in before : \A e \in before : e <= d)

\* the marks of one painter obey the rule: every whole second in the visible range is
\* drawn, and a position left out is a subdivision closer than MIN_STEP_GAP to the
\* mark drawn before it
MarksObeyRule(a, drawn) ==
    \A r \in LinePositions(a) :
        /\ (is_whole_second(a, r) /\ r >= 0) => r \in drawn
        /\ r \notin drawn =>
              /\ ~is_whole_second(a, r)
              /\ PreviousMark(drawn, r) # None
              /\ TickX(a.zoom_level, r) - TickX(a.zoom_level, PreviousMark(drawn, r)[1])
                    < MIN_STEP_GAP * PxScale

\* ------------------------------------------------------------------ coordinates

\* header widths in points: no header column, and TimelineApp's .header(150.0)
HeaderWidths == { 0, 150 }

\* timeline_rect.min.x = r.right(): the header's right edge, in 1/PxScale points from
\* the left edge of content_rect; the timeline rectangle is TimelineW points wide
timeline_rect_min_x(header_w) == header_w * PxScale

\* <<q, r>> with x * m = q * d + r and 0 <= r < d, for 0 <= x <= d: the product is
\* built up by doubling so that no intermediate value leaves the integer range
RECURSIVE MulDivRem(_, _, _)
MulDivRem(x, m, d) ==
    IF m = 0 THEN << 0, 0 >>
    ELSE LET h == MulDivRem(x, m \div 2, d)
             r == 2 * h[2] + (IF m % 2 = 1 THEN x ELSE 0)
         IN  << 2 * h[1] + r \div d, r % d >>

\* (tick / visible_ticks) * timeline_w in 1/PxScale points, for 0 <= tick <= visible
MulDiv(tick, timeline_w, visible) == MulDivRem(tick, timeline_w * PxScale, visible)[1]

\* grid: x = tl_rect.left() + (current_tick_relative / ticks_per_point)
GridX(left, z, tick_relative) == left + TickX(z, tick_relative)

\* ruler: x = rect.left() + (current_tick_relative / ticks_per_point); the ruler's
\* rectangle is allocated at the left edge of the pinned track's timeline rectangle
RulerX(left, z, tick_relative) == left + TickX(z, tick_relative)

\* a plausible slip: the selection is laid out from the left edge of the whole widget,
\* header column included
SelectionX_FullRect(left, a, absolute_tick) ==
    MulDiv(Min(Max(absolute_tick - a.timeline_start, 0), visible_ticks(a.zoom_level)),
           TimelineW, visible_ticks(a.zoom_level))

\* selection drawing: start_x / end_x = track_timeline_rect.min.x
\*   + (relative_tick clamped to 0 .. visible_ticks / visible_ticks) * timeline_w
SelectionX(left, a, absolute_tick) ==
    left + MulDiv(Min(Max(absolute_tick - a.timeline_start, 0),
                      visible_ticks(a.zoom_level)),
                  TimelineW, visible_ticks(a.zoom_level))

\* track hit-testing: tick = (((pt.x - timeline_rect.min.x) / timeline_w)
\*   * visible_ticks).max(0.0)
HitTestTick(left, z, pt_x) == PointerTick(z, pt_x - left)

\* ruler hit-testing: tick = (((pt.x - rect.min.x) / w) * visible_ticks).max(0.0)
RulerHitTestTick(left, z, pt_x) == PointerTick(z, pt_x - left)

\* ------------------------------------------------------------------ scenario, specification

\* pointer positions of the selection scenario at the current zoom level: relative
\* ticks 100, 300 and 500 inside the first track, relative tick 100 inside the second
\* track, and a position right of the timeline
ScenarioPositions ==
    { << TickX(zoom_level, t * TickScale), 3 >> : t \in { 100, 300, 500 } }
        \cup { << TickX(zoom_level, 100 * TickScale), 5 >>, RightOfTimeline }

\* pointer input at the scenario's positions
ScenarioFrame ==
    \E n \in 0 .. MaxButtonEvents, sec \in BOOLEAN, pos \in ScenarioPositions :
        Frame(PointerInput(n, sec, pos, 0))

\* the user moves the viewport only between selections: the button is up, no drag is
\* in progress and nothing is selected
ScenarioIdle == ~primary_down /\ drag_start_tick = None /\ track_selections = EmptyMap

\* a far scroll gesture between selections
ScenarioScrollFrame ==
    /\ ScenarioIdle
    /\ \E deltas \in FarScrollInputs :
        Frame(GestureInput(<< MidX, 3 >>, FALSE, FALSE, deltas, 0))

\* a zoom gesture by the factor 2 between selections
ScenarioZoomFrame ==
    /\ ScenarioIdle
    /\ Frame(GestureInput(<< MidX, 3 >>, TRUE, FALSE, << << 0, 0 >>, << 0, 100 >> >>, 0))

NextScenario == ScenarioFrame \/ ScenarioScrollFrame \/ ScenarioZoomFrame

\* press, hold and release at fixed relative ticks, in viewports at either end of the
\* timeline and at three zoom levels
SpecScenario == Init /\ [][NextScenario]_vars

\* ------------------------------------------------------------------ track loop, specification

\* pointer positions of the observed frames at the current zoom level: relative tick
\* 100 inside the first track, on the edge the two tracks share and inside the second
\* track; relative tick 500 above the timeline rectangle, on the ruler and inside the
\* first track; a position right of the timeline; no position
WatchedPositions ==
    { << TickX(zoom_level, 100 * TickScale), y >> : y \in { 3, 4, 5 } }
        \cup { << TickX(zoom_level, 500 * TickScale), y >> : y \in { -1, RulerY, 3 } }
        \cup { RightOfTimeline, None }

\* pointer input with the track loop observed
WatchedFrame ==
    \E n \in 0 .. MaxButtonEvents, sec \in BOOLEAN, pos \in WatchedPositions :
        FrameStep(PointerInput(n, sec, pos, 0), TRUE)

\* a far scroll gesture between two drags, with the track loop observed
WatchedScrollFrame ==
    /\ ~primary_down /\ drag_start_tick = None
    /\ \E deltas \in FarScrollInputs :
        FrameStep(GestureInput(<< MidX, 3 >>, FALSE, FALSE, deltas, 0), TRUE)

NextLoop == WatchedFrame \/ WatchedScrollFrame

\* pointer input on the ruler, on the tracks and around them, in viewports at either
\* end of the timeline
SpecLoop == Init /\ [][NextLoop]_vars

\* ------------------------------------------------------------------ track list, specification

\* the most tracks the host is asked to hold
MaxTracks == 2

\* the most primary-button transitions in one frame of the track list specification
TrackButtonEvents == 1

\* the names the user types into a track's header
TypedNames == { "X" }

\* the frame's input inp with the track list events of the frame: a rename typed into
\* a header, a track reported as clicked, the top panel's add and remove callbacks
HostInput(inp, rename, track_click, add, remove) ==
    [inp EXCEPT !.rename = rename, !.track_click = track_click,
                !.add = add, !.remove = remove]

\* pointer positions at the current zoom level: relative tick 100 inside each track
TrackListPositions ==
    { << TickX(zoom_level, 100 * TickScale), 2 * i + 1 >> : i \in 1 .. Len(track_ids) }

\* pointer input over the tracks; the widget may report a track under the pointer as
\* clicked
TrackPointerFrame ==
    \E n \in 0 .. TrackButtonEvents, pos \in TrackListPositions :
        \E click \in { None } \cup { Some(i) : i \in { j \in 1 .. Len(track_ids) :
                                                        OverTrack(pos, j) } } :
            Frame(HostInput(PointerInput(n, FALSE, pos, 0), None, click, FALSE, FALSE))

\* a frame in which the text of a track's header changes
RenameFrame ==
    \E i \in 1 .. Len(track_ids), name \in TypedNames :
        Frame(HostInput(PointerInput(0, FALSE, << MidX, -1 >>, 0),
                        Some(<< i, name >>), None, FALSE, FALSE))

\* a frame in which the top panel calls its add track callback
AddTrackFrame ==
    /\ Len(track_ids) < MaxTracks
    /\ Frame(HostInput(PointerInput(0, FALSE, << MidX, -1 >>, 0),
                       None, None, TRUE, FALSE))

\* a frame in which the top panel calls its remove track callback
RemoveTrackFrame ==
    /\ selected_track_id # None
    /\ Frame(HostInput(PointerInput(0, FALSE, << MidX, -1 >>, 0),
                       None, None, FALSE, TRUE))

NextTracks == TrackPointerFrame \/ RenameFrame \/ AddTrackFrame \/ RemoveTrackFrame

\* pointer input interleaved with renaming, adding and removing tracks
SpecTracks == Init /\ [][NextTracks]_vars

\* ------------------------------------------------------------------ properties

\* the tracks that report a selection
SelectedTracks ==
    { i \in 1 .. Len(track_ids) : get_selection(App, track_ids[i]) # None }

\* C1: single-selection invariant: in every reachable state at most one track id t
\* has get_selection(t) # None
C1_SingleSelection == Cardinality(SelectedTracks) <= 1

\* a drag on the second track shows its live selection, and it is the only one
C1_Witness ==
    /\ drag_start_tick # None
    /\ drag_start_tick[1] = track_ids[2]
    /\ SelectedTracks = { 2 }
    /\ timeline_start > 0

\* C2: every stored selection, live or committed, has start_tick <= end_tick,
\* whichever way the pointer was dragged
C2_SelectionOrdered ==
    \A t \in DOMAIN track_selections : track_selections[t][1] <= track_selections[t][2]

\* a live selection of a drag to the left: it ends at the press position
C2_Witness ==
    /\ drag_start_tick # None
    /\ drag_start_tick[1] \in DOMAIN track_selections
    /\ track_selections[drag_start_tick[1]][2] = drag_start_tick[2]
    /\ track_selections[drag_start_tick[1]][1] < drag_start_tick[2]

\* C3: a drag is never left dangling: once the primary button is up at the end of a
\* frame (it was released, or never held), no DragState is present, so no frame
\* starts with a DragState while the button is neither down nor just released
C3_NoDanglingDrag == primary_down \/ drag_start_tick = None

\* C4: click disambiguation: after a frame that releases the primary button less than
\* one tick from the press tick of the drag in progress, no track has a selection
C4_ClickLeavesNoSelection ==
    (last.release # None /\ last.release[1][2] = "lt1") => SelectedTracks = {}

\* C5: drag disambiguation: after a frame that releases the primary button at least
\* one tick from the press tick of the drag in progress, exactly one selection exists
\* and it is on the pressed track
C5_DragLeavesOneSelection ==
    (last.release # None /\ last.release[1][2] = "ge1")
        => DOMAIN track_selections = { last.release[1][1] }

\* C6: scroll lower clamp: after any sequence of horizontal scroll and zoom gestures
\* timeline_start is never below 0
C6_ScrollLowerClamp == timeline_start >= 0

\* a scroll to the left that asked for a start below 0 and was clamped to 0
C6_Witness == last.scroll = "low" /\ timeline_start = 0 /\ zoom_level # ZoomScale

\* C7: scroll upper clamp: in every state reachable by horizontal scroll and zoom
\* gestures, timeline_start <= max_start at the current zoom level and timeline width
C7_ScrollUpperClamp == timeline_start <= max_timeline_start(zoom_level)

\* C8: zoom bounds: zoom_level stays within [0.1, 3.0], and each zoom gesture
\* multiplies the previous zoom_level by 1 + (delta.y - delta.x) * 0.01 before clamping
C8_ZoomBounds ==
    /\ [](ZoomMin <= zoom_level /\ zoom_level <= ZoomMax)
    /\ [][last'.zoom # None =>
            zoom_level' = Min(Max(ZoomProduct(zoom_level, last'.zoom[1]), ZoomMin),
                              ZoomMax)]_vars

\* a zoom gesture whose factor is zero or negative left zoom_level at the lower bound
C8_Witness == last.zoom # None /\ last.zoom[1] <= -100 /\ zoom_level = ZoomMin

\* C9: playhead range invariant: in every reachable state
\* 0 <= playhead_pos <= max_position (501 * ticks_per_bar)
C9_PlayheadRange == 0 <= playhead_pos /\ playhead_pos <= max_playhead_pos

\* C10: playback auto-stop: the update in which the computed position reaches or
\* exceeds max_position sets the playhead to exactly max_position and is_playing to
\* false; from then on a frame without user input leaves the playhead at max_position
C10_AutoStop ==
    /\ [](last.auto_stop # None => last.auto_stop = Some(<< max_playhead_pos, FALSE >>))
    /\ [][(playhead_pos = max_playhead_pos /\ ~is_playing /\ last'.idle)
            => playhead_pos' = max_playhead_pos]_vars

\* playback reached the end in a frame without input and stopped there
C10_Witness ==
    /\ last.auto_stop # None
    /\ last.idle
    /\ playhead_pos = max_playhead_pos
    /\ ~is_playing

\* C11: playback advancement: when playback starts with the playhead at T0 and its
\* first update frame is at time t0, every later update frame at time t without user
\* playhead input in between leaves the playhead at
\* min(T0 + (t - t0) * ticks_per_second, max_position), ticks_per_second = 4 * ticks_per_beat
C11_PlaybackAdvance ==
    (last.update # None /\ last.update[1][1] = "start")
        => last.update[1][4]
             = Min(last.update[1][2]
                     + (time - last.update[1][3]) * (4 * TicksPerBeat * TickScale),
                   max_playhead_pos)

\* playback that started after time 0 has advanced, and has not reached the end
C11_Witness ==
    /\ last.update # None
    /\ last.update[1][1] = "start"
    /\ last.update[1][3] > 0
    /\ time > last.update[1][3]
    /\ playhead_pos > last.update[1][2]
    /\ playhead_pos < max_playhead_pos

C13_NextReturns == steps.status \notin { "hang", "overflow" }

\* the Steps value belongs to TimelineApp's 4/4 bars and has a positive minimum gap
HostSteps == steps.bar.time_sig = << 4, 4 >> /\ steps.min_step_ticks > 0

\* C14: the step sequence is finite: for every viewport reachable by scrolling, with
\* the host's bar_at_ticks, repeated calls to Steps::next return None after finitely
\* many steps, and every emitted step has 0 <= ticks <= visible_ticks
C14_StepsFinite ==
    /\ [](steps.status = "some"
            => (0 <= steps.cur[1].ticks /\ steps.cur[1].ticks <= steps.visible_ticks))
    /\ [](steps.status = "new" /\ HostSteps => <>(steps.status = "none"))

\* C15: step spacing: two consecutively emitted steps of the same bar, outside the
\* whole-bar fallback, have strictly increasing x and a tick difference of at least
\* ticks_per_point * min_step_gap
C15_StepSpacing ==
    (/\ steps.status = "some"
     /\ steps.prev # None
     /\ steps.cur[1].bar_start = steps.prev[1].bar_start
     /\ ~steps.cur[1].fallback)
        => /\ steps.cur[1].x > steps.prev[1].x
           /\ steps.cur[1].ticks - steps.prev[1].ticks >= steps.min_step_ticks

\* C16: bar-start marking: a step with index_in_bar = 0 is emitted exactly once for
\* each bar that starts in the viewport, at the bar's start tick; the bars follow one
\* another, and within a bar index_in_bar increases by 1 from one step to the next
C16_BarStartMarking ==
    steps.status = "some" =>
        /\ steps.cur[1].index_in_bar = 0 => steps.cur[1].ticks = steps.cur[1].bar_start
        /\ (steps.prev = None /\ steps.cur[1].bar_start >= 0)
              => steps.cur[1].index_in_bar = 0
        /\ (steps.prev # None /\ steps.cur[1].bar_start = steps.prev[1].bar_start)
              => steps.cur[1].index_in_bar = steps.prev[1].index_in_bar + 1
        /\ (steps.prev # None /\ steps.cur[1].bar_start # steps.prev[1].bar_start)
              => /\ steps.cur[1].index_in_bar = 0
                 /\ steps.cur[1].bar_start
                      = steps.prev[1].bar_start + bar_ticks(steps.bar.time_sig)

\* C17: time-based marks: in the grid and in the ruler, at every timeline_start and
\* zoom level, each whole-second position in the visible range is drawn, and only
\* subdivisions closer than MIN_STEP_GAP to the previously drawn mark are left out
C17_TimeMarks == MarksObeyRule(App, paint_grid(App)) /\ MarksObeyRule(App, RulerMarks(App))

\* whole-point offsets from the left edge: the edge, inside, the middle, the right edge
GluePoints == { 0, 7, TimelineW \div 2, TimelineW }

\* relative ticks of marks and selection edges: tick 0, a fraction of a tick, whole
\* ticks, the end of the visible range
GlueTicks(z) ==
    { 0, 5, 100 * TickScale, 333 * TickScale + 1, visible_ticks(z) \div 2,
      visible_ticks(z) }

\* C18: glue to left edge: at every timeline_start, zoom level and header width, a mark
\* or selection edge at relative tick 0 lies at the left edge of the timeline rectangle
\* (the header's right edge) and a pointer there hit-tests to relative tick 0; grid,
\* ruler and selection drawing place relative tick r at left + r / ticks_per_point,
\* and hit-testing inverts that map
C18_GlueToLeftEdge ==
    \A header_w \in HeaderWidths :
        LET left == timeline_rect_min_x(header_w)
            z == zoom_level
        IN  /\ GridX(left, z, 0) = left
            /\ RulerX(left, z, 0) = left
            /\ SelectionX(left, App, timeline_start) = left
            /\ HitTestTick(left, z, left) = 0
            /\ RulerHitTestTick(left, z, left) = 0
            /\ \A r \in GlueTicks(z) :
                /\ GridX(left, z, r) = left + (r * ZoomScale) \div z
                /\ RulerX(left, z, r) = GridX(left, z, r)
                /\ SelectionX(left, App, timeline_start + r) = GridX(left, z, r)
            /\ \A p \in GluePoints :
                /\ GridX(left, z, p * ticks_per_point(z)) = left + p * PxScale
                /\ HitTestTick(left, z, left + p * PxScale) = p * ticks_per_point(z)
                /\ RulerHitTestTick(left, z, left + p * PxScale) = p * ticks_per_point(z)

\* a scrolled, zoomed viewport with a 0.1 second line exactly at relative tick 0
C18_Witness ==
    /\ timeline_start > 0
    /\ zoom_level # ZoomScale
    /\ first_line_tick_relative(App) = 0
    /\ 0 \in paint_grid(App)
    /\ 0 \in RulerMarks(App)

\* C19: the selection scenario: with the viewport unchanged, a primary press at
\* relative tick 100 on the first track, frames holding the button, and a release at
\* relative tick 500 on that track leave get_selection(track) =
\* (timeline_start + 100, timeline_start + 500), get_selected_track_id() = the track,
\* and no drag state
C19_SelectionScenario ==
    (last.scenario # None /\ Len(last.scenario[1]) = 3)
        => /\ get_selection(App, track_ids[1])
                = Some(<< timeline_start + PressTick, timeline_start + ReleaseTick >>)
           /\ get_selected_track_id(App) = { Some(track_ids[1]) }
           /\ get_drag_start(App) = None

\* the scenario has run to its release in a scrolled viewport
C19_Witness ==
    /\ last.scenario # None /\ Len(last.scenario[1]) = 3
    /\ timeline_start > 0
    /\ track_ids[1] \in DOMAIN track_selections

\* C20: release outside the timeline: when the primary button is released with the
\* pointer outside the timeline rectangle while a drag belongs to a track, the click /
\* drag decision and the committed selection use the last valid clamped pointer tick
\* of the drag, the end of the live selection of the frame before
C20_ReleaseOutside ==
    last.outside # None =>
        /\ get_drag_start(App) = None
        /\ IF last.outside[1] = << >>
           THEN track_selections = EmptyMap
           ELSE track_selections
                    = MapInsert(EmptyMap, last.outside[1][1], last.outside[1][2])

\* C21: in a frame in which the secondary button is pressed with the pointer over the
\* timeline content area, once all tracks are processed no track has a selection and
\* no track's handler has started a drag
C21_SecondaryPress ==
    seen.sec = "over" =>
        /\ track_selections = EmptyMap
        /\ \A i \in DOMAIN seen.loop : seen.loop[i][2] # "start"

\* C22: a fresh primary press with the pointer inside a track's rectangle, in a frame
\* without a secondary press, leaves no selection on any track, sets the drag to that
\* track and the absolute tick under the pointer (timeline_start + the pointer's tick
\* over the timeline's full width), and moves the playhead to the same absolute tick
C22_DragStart ==
    seen.press # None =>
        LET tracks == Unwrap(seen.press)[1]
            tick == Unwrap(seen.press)[2]
        IN  /\ track_selections = EmptyMap
            /\ drag_start_tick # None
            /\ drag_start_tick[1] \in tracks
            /\ drag_start_tick[2] = tick
            /\ playhead_pos = tick

\* a press inside the second track with the viewport scrolled to the far end
C22_Witness ==
    /\ seen.press # None
    /\ timeline_start > 0
    /\ drag_start_tick = << "track2", timeline_start + 100 * TickScale >>
    /\ playhead_pos = timeline_start + 100 * TickScale

\* C23 as stated: in every frame in which the primary button is held, with a pointer
\* position, and the drag belongs to a listed track t, the selection of t becomes the
\* ordered pair of the drag's start and timeline_start + the pointer's tick clamped
\* into [0, visible_ticks], wherever the pointer is, and no other track has a selection
C23_LiveUpdate_AnyFrame ==
    seen.hold # None =>
        LET t == Unwrap(seen.hold)[1]
        IN  /\ DOMAIN track_selections = { t }
            /\ track_selections[t] = Unwrap(seen.hold)[2]

\* C23: the same in every such frame that has neither a secondary press nor a fresh
\* primary press
C23_LiveUpdate ==
    (seen.hold # None /\ seen.sec = "none" /\ ~Unwrap(seen.hold)[3]) =>
        LET t == Unwrap(seen.hold)[1]
        IN  /\ DOMAIN track_selections = { t }
            /\ track_selections[t] = Unwrap(seen.hold)[2]

\* the button is held with the drag on the first track and the pointer right of the
\* timeline, the viewport scrolled: the selection ends at the viewport's right edge
C23_Witness ==
    /\ seen.hold # None /\ seen.sec = "none" /\ ~Unwrap(seen.hold)[3]
    /\ timeline_start > 0
    /\ drag_start_tick = << "track1", timeline_start + 100 * TickScale >>
    /\ "track1" \in DOMAIN track_selections
    /\ track_selections["track1"][2] = timeline_start + visible_ticks(zoom_level)

\* C24: a frame in which the secondary button is pressed leaves the playhead where it
\* was: neither the ruler nor a track's handler sets it from the pointer (playback is
\* off in every state of the specification this is checked under)
C24_SecondaryKeepsPlayhead ==
    [][seen'.sec # "none" => playhead_pos' = playhead_pos]_vars

\* C25: the selection a track draws in a frame is that track's selection after the
\* frame's input has been applied to all tracks
C25_MutationBeforeDraw ==
    \A i \in DOMAIN seen.drawn :
        seen.drawn[i] = { get_selection(App, track_ids[i]) }

\* the tracks whose handler wrote the DragState in the last frame (start_selection_drag
\* or end_selection_drag)
DragWriters == { i \in DOMAIN seen.loop : seen.loop[i][2] \in { "start", "end" } }

\* C26: in a frame at most one track's handler writes the DragState, and a handler
\* that runs while the drag belongs to another track writes neither the DragState nor
\* a selection
C26_SingleWriter ==
    /\ Cardinality(DragWriters) <= 1
    /\ \A i \in DOMAIN seen.loop :
          (seen.loop[i][1] # None /\ seen.loop[i][1] # Some(track_ids[i]))
              => seen.loop[i][2] = "none"

\* the ids of the listed tracks
ListedTracks == { track_ids[i] : i \in 1 .. Len(track_ids) }

\* C27: a drag in progress names a listed track, and every stored selection belongs
\* to a listed track
C27_NoStaleTrack ==
    /\ drag_start_tick # None => drag_start_tick[1] \in ListedTracks
    /\ DOMAIN track_selections \subseteq ListedTracks

\* C30: the ordered track id list holds no id twice, and the names map has an entry
\* for each listed id and for no other
C30_UniqueTrackIds ==
    /\ \A i, j \in 1 .. Len(track_ids) : track_ids[i] = track_ids[j] => i = j
    /\ DOMAIN track_names = ListedTracks

\* the step of the first subdivision level of a bar, ticks_per_beat / (bottom / 4)
BeatStep(time_sig) == (TicksPerBeat * TickScale) \div (time_sig[2] \div 4)

\* step is what the subdivision loop leaves: at least min_step_ticks, with its half
\* at most min_step_ticks
FinestStep(step, min_step_ticks) ==
    step >= min_step_ticks /\ step <= 2 * min_step_ticks

LineInView(a, tick_relative) ==
    /\ 0 <= tick_relative /\ tick_relative <= visible_ticks(a.zoom_level)
    /\ InTimelineX(TickX(a.zoom_level, tick_relative))

\* consecutive lines of drawn are at least MIN_STEP_GAP points apart
LinesApart(a, drawn) ==
    \A r \in drawn :
        PreviousMark(drawn, r) # None =>
            TickX(a.zoom_level, r) - TickX(a.zoom_level, PreviousMark(drawn, r)[1])
                >= MIN_STEP_GAP * PxScale

\* C29: at every timeline_start and zoom level the first 0.1 second line is at or
\* after the viewport's start, every line the grid and the ruler draw lies in
\* [0, visible_ticks] and inside the timeline rectangle's x extent, and consecutive
\* grid lines are at least MIN_STEP_GAP points apart
C29_FirstLine ==
    /\ first_line_tick_relative(App) >= 0
    /\ \A r \in paint_grid(App) \cup RulerMarks(App) : LineInView(App, r)
    /\ LinesApart(App, paint_grid(App))

====
